---------------------------- MODULE Spec2Model ----------------------------
(***************************************************************************)
(* The bloom filter NIF of native/bloomfilternif/src/lib.rs: one           *)
(* BloomFilterResource (a fastbloom BloomFilter behind an RwLock, an        *)
(* insertion counter behind a second RwLock, and the immutable capacity    *)
(* and false positive rate), called concurrently by several threads        *)
(* through the NIFs new, add, member, clear and stats.  Every NIF is cut   *)
(* into one step per lock acquisition and per statement of its critical    *)
(* section.                                                                *)
(***************************************************************************)
EXTENDS Integers, FiniteSets, Sequences, TLC

\* ------------------------------------------------------------ bounds
\* Number of scheduler threads calling into the one resource.
NumThreads == 2
\* Number of distinct items (strings) the callers pass.
NumItems == 2
\* Largest capacity the host passes to new.
MaxCapacity == 1
\* Cap on inserted_count: add is not called once the counter plus the adds
\* in flight reach it (usize is far from overflowing at any such bound).
MaxCount == 2

Threads == 1..NumThreads
Items == 1..NumItems
Capacities == 0..MaxCapacity

\* ------------------------------------------------------------ f32 values
\* An f32 is a dyadic rational num / 2^exp; widening it to f64 is exact.
Rate(n, e) == [num |-> n, exp |-> e]

RECURSIVE Pow2(_)
Pow2(e) == IF e = 0 THEN 1 ELSE 2 * Pow2(e - 1)

\* -0.5, 0.0, 0.25, 0.5, 1.0, 1.5
FpRates == {Rate(-1, 1), Rate(0, 0), Rate(1, 2), Rate(1, 1), Rate(1, 0), Rate(3, 1)}

LeZero(p) == p.num <= 0
GeOne(p) == p.num >= Pow2(p.exp)

\* ------------------------------------------------------------ sizing
\* ln(x) in thousandths, for the numerators in use.
LnMilli(x) == CASE x = 1 -> 0 [] x = 2 -> 693 [] x = 3 -> 1099

CeilDiv(a, b) == (a + b - 1) \div b
RoundDiv(a, b) == (2 * a + b) \div (2 * b)
Max(a, b) == IF a >= b THEN a ELSE b

\* m = ceil(-(n * ln(p)) / ln(2)^2), at least 1
OptimalBits(n, p) ==
    Max(1, CeilDiv(n * (p.exp * LnMilli(2) - LnMilli(p.num)) * 1000,
                   LnMilli(2) * LnMilli(2)))

\* k = max(1, round((m / n) * ln(2)))
OptimalHashes(m, n) == Max(1, RoundDiv(m * LnMilli(2), n * 1000))

\* BloomFilter::with_false_pos(p).expected_items(n): an empty filter
NewFilter(p, n) ==
    [num_bits   |-> OptimalBits(n, p),
     num_hashes |-> OptimalHashes(OptimalBits(n, p), n),
     bits       |-> {}]

\* The filter of a resource that does not exist yet.
NoFilter == [num_bits |-> 0, num_hashes |-> 0, bits |-> {}]

\* ------------------------------------------------------------ hashing
\* Two base hashes of an item, combined by double hashing.
Hash1(x) == 2 * x
Hash2(x) == x + 1

PositionsOf(f, x) ==
    {(Hash1(x) + i * Hash2(x)) % f.num_bits : i \in 0..(f.num_hashes - 1)}

\* A faulty variant of Insert: the positions are toggled instead of set.
InsertToggles(f, x) ==
    [f EXCEPT !.bits = (@ \ PositionsOf(f, x)) \cup (PositionsOf(f, x) \ @)]

\* A faulty variant of Insert: the bits are overwritten by the item's.
InsertOverwrites(f, x) == [f EXCEPT !.bits = PositionsOf(f, x)]

\* filter.insert(&item)
Insert(f, x) == [f EXCEPT !.bits = @ \cup PositionsOf(f, x)]

\* filter.contains(&item)
Contains(f, x) == PositionsOf(f, x) \subseteq f.bits

\* ------------------------------------------------------------ RwLock
\* w: the thread holding the write guard (0: none); r: the threads holding
\* read guards; poisoned: a write guard was dropped during a panic.
FreeLock == [w |-> 0, r |-> {}, poisoned |-> FALSE]

\* A faulty variant of CanRead: a reader does not wait for the writer.
CanReadAlways(l) == TRUE

\* A faulty variant of CanRead: a reader waits for the other readers too.
CanReadExclusive(l) == l.w = 0 /\ l.r = {}

CanRead(l) == l.w = 0

\* A faulty variant of CanWrite: a writer does not wait for the readers.
CanWriteAmongReaders(l) == l.w = 0

CanWrite(l) == l.w = 0 /\ l.r = {}

\* A faulty variant of Poisoned: the poison flag is ignored.
PoisonIgnored(l) == FALSE

\* write() / read() return Err(PoisonError) when the flag is set
Poisoned(l) == l.poisoned

\* A faulty variant of AcquireWrite: the lock does not record its writer.
AcquireWriteForgets(l, t) == l

AcquireWrite(l, t) == [l EXCEPT !.w = t]
AcquireRead(l, t) == [l EXCEPT !.r = @ \cup {t}]
\* A faulty variant of ReleaseWrite: the write guard is never given back.
ReleaseWriteKeeps(l) == l

ReleaseWrite(l) == [l EXCEPT !.w = 0]

\* A faulty variant of ReleaseRead: the read guard is never given back.
ReleaseReadKeeps(l, t) == l

ReleaseRead(l, t) == [l EXCEPT !.r = @ \ {t}]
\* the write guard is dropped while the thread unwinds
PanicRelease(l) == [l EXCEPT !.w = 0, !.poisoned = TRUE]

\* A faulty variant of DropPoisonedGuard: the failed call clears the poison.
DropClearsPoison(l) == [l EXCEPT !.poisoned = FALSE]

\* map_err(..)? on Err(PoisonError { guard }): the guard inside the error is
\* dropped, the lock is left as it was
DropPoisonedGuard(l) == l

\* ------------------------------------------------------------ results
NoStats == <<0, 0, Rate(0, 0), 0>>
RetNone == [tag |-> "none", b |-> FALSE, stats |-> NoStats]
RetOk == [tag |-> "ok", b |-> FALSE, stats |-> NoStats]
RetBool(v) == [tag |-> "bool", b |-> v, stats |-> NoStats]
RetStats(s) == [tag |-> "stats", b |-> FALSE, stats |-> s]
RetPanic == [tag |-> "panic", b |-> FALSE, stats |-> NoStats]

\* Err(format!("Lock error: {}", e))
LockError == [tag |-> "LockError", b |-> FALSE, stats |-> NoStats]

NoItem == 0

VARIABLES
    filter,               \* the BloomFilter inside resource.filter
    capacity,             \* resource.capacity
    false_positive_rate,  \* resource.false_positive_rate
    inserted_count,       \* the usize inside resource.inserted_count
    filterLock,           \* the RwLock around filter
    countLock,            \* the RwLock around inserted_count
    newCall,              \* the arguments of the last call of new
    newRet,               \* "none", "ok" (a ResourceArc) or "InvalidConfiguration"
    pc,                   \* pc[t]: where thread t is in its NIF
    arg,                  \* arg[t]: the item of thread t's call in progress
    last,                 \* what the call that finished most recently returned
    atCreate,             \* history: <<m, k, capacity, rate>> as new built them
    added,                \* history: items whose add returned Ok since the last rebuild
    okAdds,               \* history: adds that returned Ok since the counter was last zeroed
    applied,              \* history: inserts applied to the bits since the last rebuild
    cleared,              \* history: some clear has returned Ok
    pair                  \* pair[h]: a further resource, its NIFs run one at a time

vars == <<filter, capacity, false_positive_rate, inserted_count, filterLock,
          countLock, newCall, newRet, pc, arg, last, atCreate, added, okAdds,
          applied, cleared, pair>>

resourceVars == <<filter, capacity, false_positive_rate, inserted_count>>
lockVars == <<filterLock, countLock>>
newVars == <<newCall, newRet, atCreate>>
histVars == <<added, okAdds, applied, cleared>>

\* The resources of pair, each made by a call of new of its own: two, the
\* number a comparison of resources takes.
NumHandles == 2
Handles == 1..NumHandles

\* A resource that does not exist yet: ret and call are as newRet and
\* newCall, stats is what the last stats call on it returned.
NoHandle ==
    [ret |-> "none", call |-> [capacity |-> 0, rate |-> Rate(0, 0)],
     filter |-> NoFilter, capacity |-> 0, false_positive_rate |-> Rate(0, 0),
     inserted_count |-> 0, stats |-> NoStats]

Init ==
    /\ filter = NoFilter
    /\ capacity = 0
    /\ false_positive_rate = Rate(0, 0)
    /\ inserted_count = 0
    /\ filterLock = FreeLock
    /\ countLock = FreeLock
    /\ newCall = [capacity |-> 0, rate |-> Rate(0, 0)]
    /\ newRet = "none"
    /\ pc = [t \in Threads |-> "idle"]
    /\ arg = [t \in Threads |-> NoItem]
    /\ last = RetNone
    /\ atCreate = <<0, 0, 0, Rate(0, 0)>>
    /\ added = {}
    /\ okAdds = 0
    /\ applied = 0
    /\ cleared = FALSE
    /\ pair = [h \in Handles |-> NoHandle]

\* ------------------------------------------------------------ new
\* A faulty variant of ValidConfig: the rate check admits 1.0.
ValidConfigAdmitsOne(c, p) == ~(c = 0) /\ ~(LeZero(p) \/ p.num > Pow2(p.exp))

\* the two checks of new
ValidConfig(c, p) == ~(c = 0) /\ ~(LeZero(p) \/ GeOne(p))

New(c, p) ==
    /\ newRet # "ok"
    /\ newCall' = [capacity |-> c, rate |-> p]
    /\ IF ~ValidConfig(c, p)
       THEN /\ newRet' = "InvalidConfiguration"
            /\ UNCHANGED <<resourceVars, atCreate>>
       ELSE /\ newRet' = "ok"
            /\ filter' = NewFilter(p, c)
            /\ capacity' = c
            /\ false_positive_rate' = p
            /\ inserted_count' = 0
            /\ atCreate' = <<filter'.num_bits, filter'.num_hashes, c, p>>
    /\ UNCHANGED <<lockVars, pc, arg, last, histVars, pair>>

\* ------------------------------------------------------------ calls
\* The NIF a program point belongs to.
OpOf(at) ==
    CASE at \in {"add_filter_write", "add_count_write", "add_insert",
                 "add_incr", "add_return"} -> "add"
      [] at \in {"member_filter_read", "member_contains"} -> "member"
      [] at \in {"clear_filter_write", "clear_count_write", "clear_rebuild",
                 "clear_zero", "clear_return"} -> "clear"
      [] at \in {"stats_filter_read", "stats_count_read", "stats_return"} -> "stats"
      [] OTHER -> "none"

Begin(t, x, at) ==
    /\ newRet = "ok"
    /\ pc[t] = "idle"
    /\ pc' = [pc EXCEPT ![t] = at]
    /\ arg' = [arg EXCEPT ![t] = x]
    /\ UNCHANGED <<resourceVars, lockVars, newVars, histVars, last, pair>>

Return(t, v) ==
    /\ pc' = [pc EXCEPT ![t] = "idle"]
    /\ arg' = [arg EXCEPT ![t] = NoItem]
    /\ last' = v
    /\ UNCHANGED <<newVars, pair>>

Goto(t, at) ==
    /\ pc' = [pc EXCEPT ![t] = at]
    /\ UNCHANGED <<arg, last, newVars, pair>>

AddsPending == Cardinality({t \in Threads :
    pc[t] \in {"add_filter_write", "add_count_write", "add_insert", "add_incr"}})

\* ------------------------------------------------------------ add
CallAdd(t, x) ==
    /\ inserted_count + AddsPending < MaxCount
    /\ Begin(t, x, "add_filter_write")

\* A faulty variant of AddFilterWrite: on a poisoned lock the guard inside the
\* error is used for the insert before the error is returned.
AddFilterWriteInsertsOnError(t) ==
    /\ pc[t] = "add_filter_write"
    /\ CanWrite(filterLock)
    /\ IF Poisoned(filterLock)
       THEN /\ filterLock' = DropPoisonedGuard(filterLock)
            /\ filter' = Insert(filter, arg[t])
            /\ Return(t, LockError)
       ELSE /\ filterLock' = AcquireWrite(filterLock, t)
            /\ filter' = filter
            /\ Goto(t, "add_count_write")
    /\ UNCHANGED <<capacity, false_positive_rate, inserted_count, countLock,
                   histVars>>

\* let mut filter = resource.filter.write().map_err(..)?;
AddFilterWrite(t) ==
    /\ pc[t] = "add_filter_write"
    /\ CanWrite(filterLock)
    /\ IF Poisoned(filterLock)
       THEN /\ filterLock' = DropPoisonedGuard(filterLock)
            /\ Return(t, LockError)
       ELSE /\ filterLock' = AcquireWrite(filterLock, t)
            /\ Goto(t, "add_count_write")
    /\ UNCHANGED <<resourceVars, countLock, histVars>>

\* let mut count = resource.inserted_count.write().map_err(..)?;
\* on the error the filter guard is dropped by the return
AddCountWrite(t) ==
    /\ pc[t] = "add_count_write"
    /\ CanWrite(countLock)
    /\ IF Poisoned(countLock)
       THEN /\ countLock' = DropPoisonedGuard(countLock)
            /\ filterLock' = ReleaseWrite(filterLock)
            /\ Return(t, LockError)
       ELSE /\ countLock' = AcquireWrite(countLock, t)
            /\ Goto(t, "add_insert")
            /\ UNCHANGED filterLock
    /\ UNCHANGED <<resourceVars, histVars>>

\* filter.insert(&item) writes the k bits of the item one after the other:
\* one bit that is not the last missing one is set, the insert goes on.
AddInsertBit(t) ==
    /\ pc[t] = "add_insert"
    /\ Cardinality(PositionsOf(filter, arg[t]) \ filter.bits) > 1
    /\ \E b \in PositionsOf(filter, arg[t]) \ filter.bits :
           filter' = [filter EXCEPT !.bits = @ \cup {b}]
    /\ UNCHANGED <<capacity, false_positive_rate, inserted_count, lockVars,
                   histVars, pc, arg, last, newVars, pair>>

\* A faulty variant of AddInsert: the insert is left out, add only counts.
AddInsertSkipped(t) ==
    /\ pc[t] = "add_insert"
    /\ applied' = applied + 1
    /\ Goto(t, "add_incr")
    /\ UNCHANGED <<resourceVars, lockVars, added, okAdds, cleared>>

\* filter.insert(&item);
AddInsert(t) ==
    /\ pc[t] = "add_insert"
    /\ filter' = Insert(filter, arg[t])
    /\ applied' = applied + 1
    /\ Goto(t, "add_incr")
    /\ UNCHANGED <<capacity, false_positive_rate, inserted_count, lockVars,
                   added, okAdds, cleared>>

\* A faulty variant of AddIncr: the counter is set when the item is new to the bits
\* only, so a repeated add does not count.
AddIncrDistinct(t) ==
    /\ pc[t] = "add_incr"
    /\ inserted_count' = IF arg[t] \in added THEN inserted_count
                         ELSE inserted_count + 1
    /\ Goto(t, "add_return")
    /\ UNCHANGED <<filter, capacity, false_positive_rate, lockVars, histVars>>

\* *count += 1;
AddIncr(t) ==
    /\ pc[t] = "add_incr"
    /\ inserted_count' = inserted_count + 1
    /\ Goto(t, "add_return")
    /\ UNCHANGED <<filter, capacity, false_positive_rate, lockVars, histVars>>

\* } the guards are dropped, count first; Ok(resource)
AddReturn(t) ==
    /\ pc[t] = "add_return"
    /\ countLock' = ReleaseWrite(countLock)
    /\ filterLock' = ReleaseWrite(filterLock)
    /\ added' = added \cup {arg[t]}
    /\ okAdds' = okAdds + 1
    /\ Return(t, RetOk)
    /\ UNCHANGED <<resourceVars, applied, cleared>>

\* ------------------------------------------------------------ member
CallMember(t, x) == Begin(t, x, "member_filter_read")

\* let filter = resource.filter.read().map_err(..)?;
MemberFilterRead(t) ==
    /\ pc[t] = "member_filter_read"
    /\ CanRead(filterLock)
    /\ IF Poisoned(filterLock)
       THEN /\ filterLock' = DropPoisonedGuard(filterLock)
            /\ Return(t, LockError)
       ELSE /\ filterLock' = AcquireRead(filterLock, t)
            /\ Goto(t, "member_contains")
    /\ UNCHANGED <<resourceVars, countLock, histVars>>

\* A faulty variant of MemberContains: a test-and-set, the tested item is inserted.
MemberTestAndSet(t) ==
    /\ pc[t] = "member_contains"
    /\ filterLock' = ReleaseRead(filterLock, t)
    /\ filter' = Insert(filter, arg[t])
    /\ Return(t, RetBool(Contains(filter, arg[t])))
    /\ UNCHANGED <<capacity, false_positive_rate, inserted_count, countLock,
                   histVars>>

\* Ok(filter.contains(&item)); the read guard is dropped by the return
MemberContains(t) ==
    /\ pc[t] = "member_contains"
    /\ filterLock' = ReleaseRead(filterLock, t)
    /\ Return(t, RetBool(Contains(filter, arg[t])))
    /\ UNCHANGED <<resourceVars, countLock, histVars>>

\* ------------------------------------------------------------ clear
CallClear(t) == Begin(t, NoItem, "clear_filter_write")

\* let mut filter = resource.filter.write().map_err(..)?;
ClearFilterWrite(t) ==
    /\ pc[t] = "clear_filter_write"
    /\ CanWrite(filterLock)
    /\ IF Poisoned(filterLock)
       THEN /\ filterLock' = DropPoisonedGuard(filterLock)
            /\ Return(t, LockError)
       ELSE /\ filterLock' = AcquireWrite(filterLock, t)
            /\ Goto(t, "clear_count_write")
    /\ UNCHANGED <<resourceVars, countLock, histVars>>

\* let mut count = resource.inserted_count.write().map_err(..)?;
ClearCountWrite(t) ==
    /\ pc[t] = "clear_count_write"
    /\ CanWrite(countLock)
    /\ IF Poisoned(countLock)
       THEN /\ countLock' = DropPoisonedGuard(countLock)
            /\ filterLock' = ReleaseWrite(filterLock)
            /\ Return(t, LockError)
       ELSE /\ countLock' = AcquireWrite(countLock, t)
            /\ Goto(t, "clear_rebuild")
            /\ UNCHANGED filterLock
    /\ UNCHANGED <<resourceVars, histVars>>

\* A faulty variant of Rebuilt: the filter is rebuilt for the items counted so far.
RebuiltForCount(p, n) == NewFilter(p, Max(n, inserted_count + 1))

\* A faulty variant of Rebuilt: the old filter is kept, clear only zeroes the counter.
RebuiltKeepsBits(p, n) == filter

\* A faulty variant of Rebuilt: the filter is rebuilt for one item more.
RebuiltOneLarger(p, n) == NewFilter(p, n + 1)

\* BloomFilter::with_false_pos(resource.false_positive_rate as f64)
\*     .expected_items(resource.capacity)
Rebuilt(p, n) == NewFilter(p, n)

\* *filter = <the rebuilt filter>;
ClearRebuild(t) ==
    /\ pc[t] = "clear_rebuild"
    /\ filter' = Rebuilt(false_positive_rate, capacity)
    /\ added' = {}
    /\ applied' = 0
    /\ Goto(t, "clear_zero")
    /\ UNCHANGED <<capacity, false_positive_rate, inserted_count, lockVars,
                   okAdds, cleared>>

\* *count = 0;
ClearZero(t) ==
    /\ pc[t] = "clear_zero"
    /\ inserted_count' = 0
    /\ okAdds' = 0
    /\ Goto(t, "clear_return")
    /\ UNCHANGED <<filter, capacity, false_positive_rate, lockVars, added,
                   applied, cleared>>

\* } the guards are dropped; Ok(resource)
ClearReturn(t) ==
    /\ pc[t] = "clear_return"
    /\ countLock' = ReleaseWrite(countLock)
    /\ filterLock' = ReleaseWrite(filterLock)
    /\ cleared' = TRUE
    /\ Return(t, RetOk)
    /\ UNCHANGED <<resourceVars, added, okAdds, applied>>

\* ------------------------------------------------------------ stats
CallStats(t) == Begin(t, NoItem, "stats_filter_read")

\* let filter = resource.filter.read().map_err(..)?;
StatsFilterRead(t) ==
    /\ pc[t] = "stats_filter_read"
    /\ CanRead(filterLock)
    /\ IF Poisoned(filterLock)
       THEN /\ filterLock' = DropPoisonedGuard(filterLock)
            /\ Return(t, LockError)
       ELSE /\ filterLock' = AcquireRead(filterLock, t)
            /\ Goto(t, "stats_count_read")
    /\ UNCHANGED <<resourceVars, countLock, histVars>>

\* let count = resource.inserted_count.read().map_err(..)?;
StatsCountRead(t) ==
    /\ pc[t] = "stats_count_read"
    /\ CanRead(countLock)
    /\ IF Poisoned(countLock)
       THEN /\ countLock' = DropPoisonedGuard(countLock)
            /\ filterLock' = ReleaseRead(filterLock, t)
            /\ Return(t, LockError)
       ELSE /\ countLock' = AcquireRead(countLock, t)
            /\ Goto(t, "stats_return")
            /\ UNCHANGED filterLock
    /\ UNCHANGED <<resourceVars, histVars>>

\* Ok((filter.num_bits(), filter.num_hashes() as usize,
\*     resource.false_positive_rate, *count)); both read guards are dropped
StatsReturn(t) ==
    /\ pc[t] = "stats_return"
    /\ countLock' = ReleaseRead(countLock, t)
    /\ filterLock' = ReleaseRead(filterLock, t)
    /\ Return(t, RetStats(<<filter.num_bits, filter.num_hashes,
                            false_positive_rate, inserted_count>>))
    /\ UNCHANGED <<resourceVars, histVars>>

\* ------------------------------------------------------------ panic
\* The statements of a critical section that call out or do checked
\* arithmetic: the insert, the increment, the rebuild.
PanicPoints == {"add_insert", "add_incr", "clear_rebuild"}

\* The thread panics at such a statement: unwinding drops both write guards,
\* which poisons both locks; the NIF raises instead of returning.
Panic(t) ==
    /\ pc[t] \in PanicPoints
    /\ countLock' = PanicRelease(countLock)
    /\ filterLock' = PanicRelease(filterLock)
    /\ Return(t, RetPanic)
    /\ UNCHANGED <<resourceVars, histVars>>

\* ------------------------------------------------------------ the system
Next ==
    \/ \E c \in Capacities, p \in FpRates : New(c, p)
    \/ \E t \in Threads, x \in Items : CallAdd(t, x)
    \/ \E t \in Threads : AddFilterWrite(t)
    \/ \E t \in Threads : AddCountWrite(t)
    \/ \E t \in Threads : AddInsertBit(t)
    \/ \E t \in Threads : AddInsert(t)
    \/ \E t \in Threads : AddIncr(t)
    \/ \E t \in Threads : AddReturn(t)
    \/ \E t \in Threads, x \in Items : CallMember(t, x)
    \/ \E t \in Threads : MemberFilterRead(t)
    \/ \E t \in Threads : MemberContains(t)
    \/ \E t \in Threads : CallClear(t)
    \/ \E t \in Threads : ClearFilterWrite(t)
    \/ \E t \in Threads : ClearCountWrite(t)
    \/ \E t \in Threads : ClearRebuild(t)
    \/ \E t \in Threads : ClearZero(t)
    \/ \E t \in Threads : ClearReturn(t)
    \/ \E t \in Threads : CallStats(t)
    \/ \E t \in Threads : StatsFilterRead(t)
    \/ \E t \in Threads : StatsCountRead(t)
    \/ \E t \in Threads : StatsReturn(t)
    \/ \E t \in Threads : Panic(t)

Spec == Init /\ [][Next]_vars

\* ------------------------------------------------------------ two resources
\* The NIFs on the resources of pair.  Each resource has its own two locks
\* and here its calls come one after the other, so a call is one step.
PairUnchanged ==
    UNCHANGED <<resourceVars, lockVars, newVars, histVars, pc, arg, last>>

\* new(capacity, false_positive_rate)
PairNew(h, c, p) ==
    /\ pair[h].ret # "ok"
    /\ pair' = [pair EXCEPT ![h] =
           IF ~ValidConfig(c, p)
           THEN [@ EXCEPT !.ret = "InvalidConfiguration",
                          !.call = [capacity |-> c, rate |-> p]]
           ELSE [ret |-> "ok", call |-> [capacity |-> c, rate |-> p],
                 filter |-> NewFilter(p, c), capacity |-> c,
                 false_positive_rate |-> p, inserted_count |-> 0,
                 stats |-> NoStats]]
    /\ PairUnchanged

\* add(resource, item)
PairAdd(h, x) ==
    /\ pair[h].ret = "ok"
    /\ pair[h].inserted_count < MaxCount
    /\ pair' = [pair EXCEPT ![h].filter = Insert(@, x),
                            ![h].inserted_count = @ + 1]
    /\ PairUnchanged

\* clear(resource)
PairClear(h) ==
    /\ pair[h].ret = "ok"
    /\ pair' = [pair EXCEPT
           ![h].filter = Rebuilt(pair[h].false_positive_rate, pair[h].capacity),
           ![h].inserted_count = 0]
    /\ PairUnchanged

\* stats(resource)
PairStats(h) ==
    /\ pair[h].ret = "ok"
    /\ pair' = [pair EXCEPT ![h].stats =
           <<pair[h].filter.num_bits, pair[h].filter.num_hashes,
             pair[h].false_positive_rate, pair[h].inserted_count>>]
    /\ PairUnchanged

NextPair ==
    \/ \E h \in Handles, c \in Capacities, p \in FpRates : PairNew(h, c, p)
    \/ \E h \in Handles, x \in Items : PairAdd(h, x)
    \/ \E h \in Handles : PairClear(h)
    \/ \E h \in Handles : PairStats(h)

SpecPair == Init /\ [][NextPair]_vars

\* The steps thread t takes inside a call it has made: every statement of
\* the NIF bodies.  Making a call, and panicking, are not among them.
ThreadStep(t) ==
    \/ AddFilterWrite(t) \/ AddCountWrite(t) \/ AddInsertBit(t)
    \/ AddInsert(t) \/ AddIncr(t) \/ AddReturn(t)
    \/ MemberFilterRead(t) \/ MemberContains(t)
    \/ ClearFilterWrite(t) \/ ClearCountWrite(t) \/ ClearRebuild(t)
    \/ ClearZero(t) \/ ClearReturn(t)
    \/ StatsFilterRead(t) \/ StatsCountRead(t) \/ StatsReturn(t)

\* Fair scheduling: a thread whose next statement can run keeps being
\* scheduled until it has run.  RwLock promises no priority between waiting
\* readers and writers, so nothing is said of a thread whose acquisition is
\* only sometimes possible.
SpecFair == Init /\ [][Next]_vars /\ \A t \in Threads : WF_vars(ThreadStep(t))

\* ------------------------------------------------------------ helpers
\* Thread t finishes its call in this step.
Returns(t) == pc[t] # "idle" /\ pc'[t] = "idle"

\* Thread t finishes a call of NIF o in this step.
ReturnsFrom(t, o) == OpOf(pc[t]) = o /\ pc'[t] = "idle"

\* The bit positions set by the items added since the last rebuild.
BitsOf(S) == UNION {PositionsOf(filter, y) : y \in S}

\* ------------------------------------------------------------ C1
\* C1: no false negative.  A member(x) that finishes while x is among the
\* items whose add returned Ok since the last rebuild of the filter never
\* returns false: it returns true whenever it is granted the filter lock
\* (the only other outcome is the LockError of a poisoned lock), whatever
\* adds of other items, clears and stats ran in between.
C1_NoFalseNegative ==
    [][\A t \in Threads :
          (ReturnsFrom(t, "member") /\ arg[t] \in added) =>
              /\ last' # RetBool(FALSE)
              /\ (~filterLock.poisoned => last' = RetBool(TRUE))]_vars

\* Every item has been added and a member call has answered true after
\* that, while a clear is called but has not taken effect yet.
C1_Witness ==
    /\ added = Items
    /\ last = RetBool(TRUE)
    /\ ~filterLock.poisoned
    /\ \E t \in Threads : pc[t] = "clear_filter_write"

\* ------------------------------------------------------------ C2
\* C2: no lost updates.  Whenever no thread holds the filter lock in write
\* mode (so no add or clear is inside its critical section), inserted_count
\* equals the number of add calls that returned Ok since the counter was
\* last zeroed; a stats call reports exactly that number; and the counter
\* decreases only in the zeroing step of clear.
C2_NoLostUpdates ==
    /\ [](filterLock.w = 0 => inserted_count = okAdds)
    /\ [][/\ \A t \in Threads :
               (pc[t] = "stats_return" /\ pc'[t] = "idle") =>
                   last'.stats[4] = okAdds
          /\ (inserted_count' < inserted_count =>
                  \E t \in Threads : pc[t] = "clear_zero" /\ pc'[t] = "clear_return")
       ]_vars

\* Two adds have returned Ok since creation and stats has reported 2.
C2_Witness ==
    /\ okAdds = 2
    /\ ~cleared
    /\ last.tag = "stats"
    /\ last.stats[4] = 2

\* ------------------------------------------------------------ C3
\* C3: add is atomic over bits and counter.  In every state in which a
\* member or stats call holds the filter lock in read mode, and in every
\* state in which the filter lock is free and not poisoned, inserted_count
\* equals the number of inserts applied to the bit array since the last
\* rebuild: no reader ever sees the bits of an insert without its count.
C3_AddAtomic ==
    /\ (filterLock.r # {} => inserted_count = applied)
    /\ ((filterLock.w = 0 /\ ~filterLock.poisoned) => inserted_count = applied)

\* A stats call holds both read locks after an insert was counted, while an
\* add waits for the write lock.
C3_Witness ==
    /\ inserted_count >= 1
    /\ \E t \in Threads : pc[t] = "stats_return"
    /\ \E t \in Threads : pc[t] = "add_filter_write"

\* ------------------------------------------------------------ C4
\* C4 as stated: once a clear has returned Ok, member(x) returns false for
\* every x that has not been added again since.
C4_Original ==
    [][\A t \in Threads :
          (pc[t] = "member_contains" /\ pc'[t] = "idle" /\ cleared
           /\ arg[t] \notin added) => last' = RetBool(FALSE)]_vars

\* C4 as amended: once a clear has returned Ok, a member(x) of an item x not
\* added again since returns true exactly when the items that were added
\* since the last clear set all of x's bit positions (a false positive), so
\* it returns false as long as nothing has been added since; and stats
\* reports inserted_count 0 as long as no add has returned Ok since.
C4_ResetRestores ==
    [][/\ \A t \in Threads :
             (pc[t] = "member_contains" /\ pc'[t] = "idle" /\ cleared
              /\ arg[t] \notin added) =>
                 last' = RetBool(PositionsOf(filter, arg[t]) \subseteq BitsOf(added))
       /\ \A t \in Threads :
             (pc[t] = "stats_return" /\ pc'[t] = "idle" /\ cleared
              /\ added = {}) => last'.stats[4] = 0
      ]_vars

\* After adds and a clear that returned Ok, nothing has been added again and
\* a member call has answered false.
C4_Witness ==
    /\ cleared
    /\ added = {}
    /\ applied = 0
    /\ inserted_count = 0
    /\ last = RetBool(FALSE)
    /\ \A t \in Threads : pc[t] = "idle"

\* ------------------------------------------------------------ C5
\* C5: construction validation.  new returns an error, and builds nothing,
\* exactly when capacity = 0 or the rate is <= 0.0 or >= 1.0; for every
\* other input it returns a resource holding that capacity and rate, whose
\* counter is 0 and whose filter is empty before the first call on it.
C5_Validation ==
    /\ newRet = "InvalidConfiguration" =>
           /\ \/ newCall.capacity = 0
              \/ newCall.rate.num <= 0
              \/ newCall.rate.num >= Pow2(newCall.rate.exp)
           /\ filter = NoFilter
           /\ \A t \in Threads : pc[t] = "idle"
    /\ newRet = "ok" =>
           /\ newCall.capacity > 0
           /\ newCall.rate.num > 0
           /\ newCall.rate.num < Pow2(newCall.rate.exp)
           /\ capacity = newCall.capacity
           /\ false_positive_rate = newCall.rate
           /\ filter.num_bits >= 1
           /\ ((last = RetNone /\ \A t \in Threads : pc[t] = "idle") =>
                   inserted_count = 0 /\ filter.bits = {})

\* new(1, 1.0) has been refused and nothing was built.
C5_Witness ==
    /\ newRet = "InvalidConfiguration"
    /\ newCall = [capacity |-> 1, rate |-> Rate(1, 0)]
    /\ filter = NoFilter

\* ------------------------------------------------------------ C6
\* C6: add is idempotent on the bits and not on the counter.  The insert
\* step of an add(x) leaves member(x) true; when x was already added since
\* the last rebuild (this is add(x) after add(x)) it leaves the filter as
\* the first add left it; and the increment step of every add, repeated or
\* not, raises inserted_count by exactly 1.
C6_Idempotence ==
    [][\A t \in Threads :
          /\ (pc[t] = "add_insert" /\ pc'[t] = "add_incr") =>
                 /\ Contains(filter', arg[t])
                 /\ (arg[t] \in added => filter' = filter)
          /\ (pc[t] = "add_incr" /\ pc'[t] = "add_return") =>
                 inserted_count' = inserted_count + 1]_vars

\* The second add of the one item added so far has inserted and counted: the
\* counter is 2 for one distinct item.
C6_Witness ==
    \E t \in Threads :
        /\ pc[t] = "add_return"
        /\ added = {arg[t]}
        /\ okAdds = 1
        /\ inserted_count = 2
        /\ Contains(filter, arg[t])

\* ------------------------------------------------------------ C7
\* C7: fixed configuration.  Once new has returned a resource, the filter's
\* num_bits and num_hashes and the resource's capacity and rate are the ones
\* new built, in every state, and every stats result reports them.
C7_FixedConfiguration ==
    newRet = "ok" =>
        /\ <<filter.num_bits, filter.num_hashes, capacity, false_positive_rate>>
               = atCreate
        /\ (last.tag = "stats" =>
               <<last.stats[1], last.stats[2], last.stats[3]>>
                   = <<atCreate[1], atCreate[2], atCreate[4]>>)

\* stats has answered after adds were made and a clear rebuilt the filter.
C7_Witness ==
    /\ cleared
    /\ okAdds >= 1
    /\ last.tag = "stats"
    /\ last.stats[4] >= 1

\* ------------------------------------------------------------ C8
\* C8: reads have no side effects.  No step of a member or stats call, the
\* step that begins it and the steps that end it with a value or with a
\* LockError included, changes the filter, inserted_count, capacity or the
\* rate.
C8_ReadsNoEffect ==
    [][\A t \in Threads :
          (/\ pc'[t] # pc[t]
           /\ \/ OpOf(pc[t]) \in {"member", "stats"}
              \/ OpOf(pc'[t]) \in {"member", "stats"}) =>
              UNCHANGED resourceVars]_vars

\* A stats call has returned the count of two adds while a member call is
\* in flight.
C8_Witness ==
    /\ last.tag = "stats"
    /\ last.stats[4] = 2
    /\ filter.bits # {}
    /\ \E t \in Threads : pc[t] \in {"member_contains", "member_filter_read"}

\* ------------------------------------------------------------ C9
\* C9: lock failure is surfaced.  A call that reaches an acquisition of a
\* poisoned lock ends at that very step with LockError as its result: it
\* does not go on into the critical section, does not return a success
\* value, a boolean or a stats tuple, and does not wait or try again.
C9_LockErrorSurfaced ==
    [][\A t \in Threads :
          (/\ pc'[t] # pc[t]
           /\ \/ /\ pc[t] \in {"add_filter_write", "member_filter_read",
                               "clear_filter_write", "stats_filter_read"}
                 /\ filterLock.poisoned
              \/ /\ pc[t] \in {"add_count_write", "clear_count_write",
                               "stats_count_read"}
                 /\ countLock.poisoned) =>
              (pc'[t] = "idle" /\ last' = LockError)]_vars

\* A writer panicked, the locks are poisoned, and a call has been answered
\* with LockError while another call waits at the poisoned lock.
C9_Witness ==
    /\ filterLock.poisoned
    /\ countLock.poisoned
    /\ last = LockError
    /\ \E t \in Threads : pc[t] = "member_filter_read"

\* ------------------------------------------------------------ C10
\* C10 as stated: after a call has returned LockError, later calls on the
\* resource can still succeed, that is, the filter lock every call takes
\* first is not left poisoned.
C10_Original == (last = LockError) => ~filterLock.poisoned

\* C10 as amended: the resource stays callable after a LockError, but the
\* poison is never cleared: once a call has returned LockError, every call
\* that finishes afterwards returns LockError too.
C10_LockErrorSticks ==
    [][\A t \in Threads :
          (last = LockError /\ Returns(t)) =>
              (last' = LockError /\ filterLock'.poisoned)]_vars

\* After a LockError a further call has been made and has reached the
\* filter lock, which is free and still poisoned.
C10_Witness ==
    /\ last = LockError
    /\ filterLock.w = 0
    /\ filterLock.r = {}
    /\ \E t \in Threads : pc[t] = "add_filter_write"
    /\ \E t \in Threads : pc[t] = "stats_filter_read"

\* ------------------------------------------------------------ guards
\* The threads whose program point lies where a guard of theirs is alive.
FilterWriters == {t \in Threads : pc[t] \in
    {"add_count_write", "add_insert", "add_incr", "add_return",
     "clear_count_write", "clear_rebuild", "clear_zero", "clear_return"}}
FilterReaders == {t \in Threads : pc[t] \in
    {"member_contains", "stats_count_read", "stats_return"}}
CountWriters == {t \in Threads : pc[t] \in
    {"add_insert", "add_incr", "add_return",
     "clear_rebuild", "clear_zero", "clear_return"}}
CountReaders == {t \in Threads : pc[t] = "stats_return"}
\* The add and clear calls waiting for the filter lock.
WaitingWriters == {t \in Threads : pc[t] \in
    {"add_filter_write", "clear_filter_write"}}
\* The member and stats calls waiting for the filter lock.
WaitingReaders == {t \in Threads : pc[t] \in
    {"member_filter_read", "stats_filter_read"}}

\* ------------------------------------------------------------ C13
\* C13: writer exclusion.  At most one add or clear is between taking the
\* filter write guard and dropping it, and then no member or stats holds a
\* filter read guard; the same for the counter lock; and the locks record
\* exactly these holders.
C13_WriterExclusion ==
    /\ Cardinality(FilterWriters) <= 1
    /\ (FilterWriters # {} => FilterReaders = {})
    /\ Cardinality(CountWriters) <= 1
    /\ (CountWriters # {} => CountReaders = {})
    /\ filterLock.r = FilterReaders
    /\ countLock.r = CountReaders
    /\ FilterWriters = (IF filterLock.w = 0 THEN {} ELSE {filterLock.w})
    /\ CountWriters = (IF countLock.w = 0 THEN {} ELSE {countLock.w})

\* An add is between its insert and its increment while a member call
\* waits for the filter lock.
C13_Witness ==
    /\ \E t \in Threads : pc[t] = "add_incr" /\ filterLock.w = t /\ countLock.w = t
    /\ \E t \in Threads : pc[t] = "member_filter_read"

\* ------------------------------------------------------------ C14
\* C14: read concurrency.  member and stats never take a lock in write mode;
\* and while no add or clear holds or waits for the filter lock, a member or
\* stats call waiting for the filter lock can take it at once, whatever other
\* readers hold it: several read guards are alive together.
C14_ReadConcurrency ==
    /\ [](\A t \in WaitingReaders :
             (FilterWriters = {} /\ WaitingWriters = {}) =>
                 ENABLED (MemberFilterRead(t) \/ StatsFilterRead(t)))
    /\ [][\A t \in Threads :
             (pc'[t] # pc[t] /\ OpOf(pc[t]) \in {"member", "stats"}) =>
                 (filterLock'.w = filterLock.w /\ countLock'.w = countLock.w)]_vars

\* Two calls hold the filter lock in read mode together, a member and a
\* stats, and no add or clear holds or waits for it.
C14_Witness ==
    /\ Cardinality(filterLock.r) >= 2
    /\ \E t \in Threads : pc[t] = "member_contains"
    /\ \E t \in Threads : pc[t] = "stats_return"
    /\ WaitingWriters = {}

\* ------------------------------------------------------------ C15
\* C15: member and stats are linearizable against writers.  While a member
\* or stats call holds the filter read guard, no add or clear is inside its
\* mutation, the bits are exactly those of the whole inserts of the adds
\* that returned Ok since the last rebuild (no insert is half written, no
\* rebuild half done), the counter is their number, and neither changes; so
\* member answers, and stats reports the counter, of that one state.
C15_Linearizable ==
    /\ [](FilterReaders # {} =>
             /\ FilterWriters = {}
             /\ filter.bits = BitsOf(added)
             /\ inserted_count = okAdds)
    /\ [][/\ (FilterReaders # {} => UNCHANGED resourceVars)
          /\ \A t \in Threads :
               (pc[t] = "member_contains" /\ pc'[t] = "idle") =>
                   last' = RetBool(PositionsOf(filter, arg[t]) \subseteq BitsOf(added))
          /\ \A t \in Threads :
               (pc[t] = "stats_return" /\ pc'[t] = "idle") =>
                   last'.stats[4] = inserted_count
       ]_vars

\* A member call holds the filter read guard after an add returned, while
\* another add waits for the lock.
C15_Witness ==
    /\ added # {}
    /\ \E t \in Threads : pc[t] = "member_contains"
    /\ \E t \in Threads : pc[t] = "add_filter_write"

\* ------------------------------------------------------------ C17
\* C17: bits only grow between clears.  The only step that takes a bit out
\* of the filter, or turns a true member(x) into a false one, is the
\* rebuild of clear; every step of an add keeps all the bits that were set.
C17_BitsOnlyGrow ==
    [][newRet = "ok" =>
          /\ (~(filter.bits \subseteq filter'.bits) =>
                 \E t \in Threads : pc[t] = "clear_rebuild" /\ pc'[t] = "clear_zero")
          /\ \A x \in Items :
                 (Contains(filter, x) /\ ~Contains(filter', x)) =>
                     \E t \in Threads : pc[t] = "clear_rebuild" /\ pc'[t] = "clear_zero"
      ]_vars

\* In the period after a clear two adds have returned, bits are set and a
\* member call has answered true.
C17_Witness ==
    /\ cleared
    /\ okAdds = 2
    /\ filter.bits # {}
    /\ last = RetBool(TRUE)

\* ------------------------------------------------------------ C19
\* C19: failed mutations change nothing.  An add or clear returns LockError
\* only from one of its two lock acquisitions, which come before its first
\* mutation, and that step leaves the filter, the counter, the capacity and
\* the rate as they were.
C19_FailedMutation ==
    [][\A t \in Threads :
          (OpOf(pc[t]) \in {"add", "clear"} /\ pc'[t] = "idle"
           /\ last' = LockError) =>
              /\ pc[t] \in {"add_filter_write", "add_count_write",
                            "clear_filter_write", "clear_count_write"}
              /\ UNCHANGED resourceVars]_vars

\* After an insert was applied and a writer panicked, a call has returned
\* LockError and an add and a clear wait at the poisoned lock.
C19_Witness ==
    /\ filterLock.poisoned
    /\ last = LockError
    /\ filter.bits # {}
    /\ \E t \in Threads : pc[t] = "add_filter_write"
    /\ \E t \in Threads : pc[t] = "clear_filter_write"

\* ------------------------------------------------------------ C16
\* C16 as stated: under fair scheduling every add or clear that waits for
\* the filter write lock eventually returns.
C16_Original ==
    \A t \in Threads : (t \in WaitingWriters) ~> (pc[t] = "idle")

\* C16, amended: a waiting add or clear can take the filter lock whenever no
\* call holds a guard of it, and an add or clear that has taken it
\* eventually returns; while other calls keep taking the lock the wait may
\* last for ever.
C16_WriterProgress ==
    /\ [](\A t \in WaitingWriters :
             (FilterWriters = {} /\ FilterReaders = {}) =>
                 ENABLED (AddFilterWrite(t) \/ ClearFilterWrite(t)))
    /\ \A t \in Threads : (t \in FilterWriters) ~> (pc[t] = "idle")

\* An add waits for the filter lock that a member call holds in read mode,
\* after that member thread has already answered a call.
C16_Witness ==
    /\ \E t \in Threads : pc[t] = "add_filter_write"
    /\ \E t \in Threads : pc[t] = "member_contains" /\ t \in filterLock.r
    /\ last \in {RetBool(TRUE), RetBool(FALSE)}

\* ------------------------------------------------------------ C18
\* C18 as stated: every call eventually returns.
C18_Original ==
    \A t \in Threads : (pc[t] # "idle") ~> (pc[t] = "idle")

\* C18, amended: the counter lock is held only by a call that holds the
\* filter lock; a thread that is not in a call holds no guard; while calls
\* are in progress some call can take its next step; and every call that
\* holds a guard eventually returns.  A call waiting for the filter lock
\* may wait for ever while other calls keep taking it.
C18_DeadlockFreedom ==
    /\ [](/\ CountWriters \cup CountReaders \subseteq FilterWriters \cup FilterReaders
          /\ \A t \in Threads :
                 pc[t] = "idle" =>
                     /\ filterLock.w # t /\ t \notin filterLock.r
                     /\ countLock.w # t /\ t \notin countLock.r
          /\ ((\E t \in Threads : pc[t] # "idle") =>
                 \E t \in Threads : ENABLED ThreadStep(t)))
    /\ \A t \in Threads :
           (t \in FilterWriters \cup FilterReaders) ~> (pc[t] = "idle")

\* A stats call holds both locks in read mode while a clear waits for the
\* filter lock.
C18_Witness ==
    /\ \E t \in Threads : pc[t] = "stats_return" /\ t \in countLock.r
                          /\ t \in filterLock.r
    /\ \E t \in Threads : pc[t] = "clear_filter_write"

\* ------------------------------------------------------------ C12
\* C12: sizing determinism.  Two resources that new built from the same
\* capacity and the same rate have the same num_bits and the same
\* num_hashes in every state, whatever adds and clears each has seen since,
\* and the stats results of the two report the same two numbers.
C12_SizingDeterminism ==
    \A g \in Handles, h \in Handles :
        (pair[g].ret = "ok" /\ pair[h].ret = "ok" /\ pair[g].call = pair[h].call) =>
            /\ pair[g].filter.num_bits = pair[h].filter.num_bits
            /\ pair[g].filter.num_hashes = pair[h].filter.num_hashes
            /\ (pair[g].stats # NoStats /\ pair[h].stats # NoStats =>
                   /\ pair[g].stats[1] = pair[h].stats[1]
                   /\ pair[g].stats[2] = pair[h].stats[2])

\* Two resources built from the same arguments: the first answered stats
\* after an add and was cleared since, the second holds an add and has
\* answered stats too.
C12_Witness ==
    \E g \in Handles, h \in Handles :
        /\ g # h
        /\ pair[g].ret = "ok" /\ pair[h].ret = "ok"
        /\ pair[g].call = pair[h].call
        /\ pair[g].stats # NoStats /\ pair[g].stats[4] >= 1
        /\ pair[g].inserted_count = 0
        /\ pair[h].stats # NoStats
        /\ pair[h].inserted_count >= 1

=============================================================================
